---- MODULE Spec2Model ----
(***************************************************************************)
(* Model of the rslisp evaluator (src/src/evaluator.rs): the Environment   *)
(* chain (new / get / set) and the recursive tree walker eval_obj with its *)
(* special forms.  Environments are reference-counted cells in the source; *)
(* here they are the entries of the arena `envs`, addressed by index, and  *)
(* a parent link is the index of the enclosing entry (0 = no parent).      *)
(*                                                                         *)
(* A Rust panic (todo!, unimplemented!, unreachable!) aborts the process:  *)
(* it is the result kind "Panic", after which no operation runs.           *)
(***************************************************************************)
EXTENDS Integers, Sequences, FiniteSets, TLC

\* ---------------------------------------------------------------- bounds
MaxSteps == 3
MaxEnvs == 2

\* ------------------------------------------------------------- locations
\* Option<Location>: `some` tells Some from None.
NoLoc == [some |-> FALSE, filename |-> "", rol |-> 0, col |-> 0]

Location_new(f, r, c) == [some |-> TRUE, filename |-> f, rol |-> r, col |-> c]

\* the position the reader gives to the atoms of the programs below
SrcLoc == Location_new("prog", 1, 1)

\* --------------------------------------------------------------- objects
Void(loc) == [kind |-> "Void", loc |-> loc]

Integer(n, loc) == [kind |-> "Integer", ival |-> n, loc |-> loc]

Bool(b, loc) == [kind |-> "Bool", bval |-> b, loc |-> loc]

Symbol(s, loc) == [kind |-> "Symbol", name |-> s, loc |-> loc]

Lambda(fd, loc) == [kind |-> "Lambda", fdef |-> fd, loc |-> loc]

List(items, loc) == [kind |-> "List", items |-> items, loc |-> loc]

\* ---------------------------------------------------------------- results
Ok(v) == [kind |-> "Ok", val |-> v]

Err(m) == [kind |-> "Err", msg |-> m]

Panic(m) == [kind |-> "Panic", msg |-> m]

Some(v) == [some |-> TRUE, val |-> v]

None == [some |-> FALSE]

\* ------------------------------------------------------------ environment
BuiltinNames == {"+", "-", "*", "/", "%", ">", "<", "=", ">=", "<=", "/="}

\* the object bound to each operator name: a Lambda with one variadic
\* parameter located in "__builtin__", an empty body and no location
create_builtin_funcdef ==
    Lambda([params |-> << [kind |-> "Variadic",
                           loc |-> Location_new("__builtin__", 0, 0)] >>,
            body |-> << >>],
           NoLoc)

\* true exactly of an object whose own location names the file
\* "__builtin__"; an object without location is not builtin
is_builtin(object) ==
    IF object.loc.some THEN object.loc.filename = "__builtin__" ELSE FALSE

\* Environment::new seeds the table of every environment it builds
Environment_new(parent) ==
    [parent |-> parent, vars |-> [n \in BuiltinNames |-> create_builtin_funcdef]]

\* get that never consults the parent link
Environment_get_local(st, e, name) ==
    IF name \in DOMAIN st[e].vars THEN Some(st[e].vars[name]) ELSE None

RECURSIVE Environment_get(_, _, _)
Environment_get(st, e, name) ==
    IF name \in DOMAIN st[e].vars
    THEN Some(st[e].vars[name])
    ELSE IF st[e].parent # 0
         THEN Environment_get(st, st[e].parent, name)
         ELSE None

\* set that keeps an existing entry (entry().or_insert instead of insert)
Environment_set_keep(st, e, name, obj) ==
    IF name \in DOMAIN st[e].vars THEN st
    ELSE [st EXCEPT ![e].vars =
            [n \in (DOMAIN st[e].vars) \cup {name} |->
                IF n = name THEN obj ELSE st[e].vars[n]]]

\* set that writes into the enclosing environment when there is one
Environment_set_outer(st, e, name, obj) ==
    LET t == IF st[e].parent # 0 THEN st[e].parent ELSE e
    IN  [st EXCEPT ![t].vars =
            [n \in (DOMAIN st[t].vars) \cup {name} |->
                IF n = name THEN obj ELSE st[t].vars[n]]]

Environment_set(st, e, name, obj) ==
    [st EXCEPT ![e].vars =
        [n \in (DOMAIN st[e].vars) \cup {name} |->
            IF n = name THEN obj ELSE st[e].vars[n]]]

\* -------------------------------------------------------------- evaluator
\* every eval_* returns the result together with the arena it leaves
Out(r, st) == [res |-> r, store |-> st]

eval_symbol(s, e, st) ==
    LET got == Environment_get(st, e, s)
    IN  IF got.some THEN Out(Ok(got.val), st)
        ELSE Out(Err("Symbol not found"), st)

\* the function computes params and body and ends without producing a
\* Result: no closure is ever constructed, evaluation cannot continue
eval_function_definition(list, e, st) == Out(Panic("no value"), st)

eval_function_call(list, e, st) == Out(Panic("not yet implemented"), st)

RECURSIVE eval_obj(_, _, _)
RECURSIVE eval_list(_, _, _)
RECURSIVE eval_define(_, _, _)
RECURSIVE eval_if(_, _, _)

eval_define(list, e, st) ==
    IF Len(list) = 0 THEN Out(Err(""), st)
    ELSE IF list[1].kind # "Symbol"
    THEN Out(Err("Expect Symbol/identifier"), st)
    ELSE IF Len(list) < 2
    THEN Out(Err("Expect binding an Object to a variable"), st)
    ELSE LET r == eval_obj(list[2], e, st)
         IN  IF r.res.kind # "Ok" THEN r
             ELSE Out(Ok(Void(NoLoc)),
                      Environment_set(r.store, e, list[1].name, r.res.val))

eval_if(list, e, st) ==
    IF Len(list) > 0 /\ list[1].kind # "Bool"
    THEN Out(Panic("not implemented"), st)
    ELSE LET condition == IF Len(list) = 0 THEN None ELSE Some(list[1].bval)
             pick == IF condition = Some(TRUE) THEN 2 ELSE 3
         IN  IF Len(list) < pick
             THEN Out(Err("follow-up action not found for the if-expression"), st)
             ELSE eval_obj(list[pick], e, st)

eval_list(list, e, st) ==
    IF Len(list) = 0 THEN Out(Ok(Void(NoLoc)), st)
    ELSE IF list[1].kind = "Symbol"
    THEN CASE list[1].name = "define" -> eval_define(Tail(list), e, st)
           [] list[1].name = "if" -> eval_if(Tail(list), e, st)
           [] list[1].name = "lambda" -> eval_function_definition(Tail(list), e, st)
           [] OTHER -> eval_function_call(Tail(list), e, st)
    ELSE Out(Panic("entered unreachable code"), st)

eval_obj(obj, e, st) ==
    IF obj.kind \in {"Void", "Lambda", "Bool", "Integer", "Float", "Str"}
    THEN Out(Ok(obj), st)
    ELSE IF obj.kind = "Symbol"
    THEN eval_symbol(obj.name, e, st)
    ELSE eval_list(obj.items, e, st)

eval(object, e, st) == eval_obj(object, e, st)

\* ------------------------------------------------------------------ state
VARIABLES
    envs,     \* the arena of Environment cells: Seq of [parent, vars]
    pre,      \* the arena as it was when the last operation started
    last,     \* the last operation the host ran, with its outcome
    steps,    \* number of operations run so far
    aborted,  \* TRUE once an operation panicked
    call,     \* the call of a free-standing function under study: its input
    ret       \* what that call returned, NoRet while it has not run

vars == << envs, pre, last, steps, aborted, call, ret >>

\* ----------------------------------------------------------------- inputs
I1 == Integer(1, SrcLoc)
I2 == Integer(2, SrcLoc)
BT == Bool(TRUE, SrcLoc)
BF == Bool(FALSE, SrcLoc)
Sym(s) == Symbol(s, SrcLoc)
L(items) == List(items, NoLoc)

\* a function object as a host can hand it to set or place it in a tree
UserLambda == Lambda([params |-> << >>, body |-> << Sym("y") >>], SrcLoc)

\* the same with one parameter x and body x
LambdaX == Lambda([params |-> << [name |-> "x", loc |-> SrcLoc] >>,
                   body |-> << Sym("x") >>], SrcLoc)

Names == {"x", "y", "f", "+"}

Atoms == {I1, I2, BT, BF, Sym("x"), Sym("y"), Sym("+"), Sym("nope"), UserLambda}

DefineForms ==
    { L(<< Sym("define"), Sym("x"), I1 >>),
      L(<< Sym("define"), Sym("x"), I2 >>),
      L(<< Sym("define"), Sym("y"), BT >>),
      L(<< Sym("define"), Sym("x"), Sym("y") >>),
      L(<< Sym("define"), Sym("y"), Sym("nope") >>),
      L(<< Sym("define"), Sym("+"), I2 >>),
      L(<< Sym("define"), Sym("f"), UserLambda >>),
      L(<< Sym("define"), Sym("f"), L(<< Sym("lambda"), L(<< >>), Sym("y") >>) >>),
      L(<< Sym("define"), Sym("x"), L(<< Sym("define"), Sym("y"), I2 >>) >>),
      L(<< Sym("define"), I1, I2 >>),
      L(<< Sym("define"), Sym("x") >>),
      L(<< Sym("define") >>) }

IfForms ==
    { L(<< Sym("if"), BT, I1, I2 >>),
      L(<< Sym("if"), BF, I1, I2 >>),
      L(<< Sym("if"), BF, I1 >>),
      L(<< Sym("if"), BT >>),
      L(<< Sym("if") >>),
      L(<< Sym("if"), BT, L(<< Sym("define"), Sym("x"), I1 >>),
                          L(<< Sym("define"), Sym("y"), I2 >>) >>),
      L(<< Sym("if"), BF, L(<< Sym("define"), Sym("x"), I1 >>),
                          L(<< Sym("define"), Sym("y"), I2 >>) >>),
      L(<< Sym("if"), Sym("x"), I1, I2 >>),
      L(<< Sym("if"), I1, I1, I2 >>),
      L(<< Sym("if"), L(<< Sym("if"), BT, BF, BT >>), I1, I2 >>) }

LambdaForms == { L(<< Sym("lambda"), L(<< >>), Sym("y") >>) }

CallForms ==
    { L(<< Sym("f") >>),
      L(<< Sym("f"), I2 >>),
      L(<< Sym("+"), I1, I2 >>),
      L(<< Sym("x"), I1 >>),
      L(<< I1, I2 >>),
      L(<< L(<< Sym("lambda"), L(<< >>), Sym("y") >>) >>),
      L(<< UserLambda >>) }

\* the node parse returns: the forms of the program in source order
TopLevel(forms) == List(forms, Location_new("", 1, 1))

Programs ==
    { TopLevel(<< >>),
      TopLevel(<< L(<< Sym("define"), Sym("x"), I1 >>) >>),
      TopLevel(<< L(<< Sym("define"), Sym("x"), I1 >>),
                  L(<< Sym("define"), Sym("y"), Sym("nope") >>),
                  L(<< Sym("define"), Sym("y"), I2 >>) >>),
      TopLevel(<< Sym("nope"), L(<< Sym("define"), Sym("x"), I1 >>) >>),
      TopLevel(<< I1, I2 >>) }

EvalInputs == Atoms \cup {L(<< >>)} \cup DefineForms \cup IfForms
                \cup LambdaForms \cup CallForms \cup Programs

SetInputs == {I1, I2, UserLambda, LambdaX}

NoObj == Void(NoLoc)

Op(op, e, name, obj, res, got) ==
    [op |-> op, env |-> e, name |-> name, obj |-> obj, res |-> res, got |-> got]

NoCall == [fn |-> "none"]

NoRet == [kind |-> "NoRet"]

\* ---------------------------------------------------------------- actions
\* the host holds one root environment when it starts evaluating
Init ==
    /\ envs = << Environment_new(0) >>
    /\ pre = envs
    /\ last = Op("init", 0, "", NoObj, Ok(NoObj), None)
    /\ steps = 0
    /\ aborted = FALSE
    /\ call = NoCall
    /\ ret = NoRet

Running == ~aborted /\ steps < MaxSteps

\* Environment::new(parent), parent = None (0) or an existing environment
NewEnv(p) ==
    /\ Running
    /\ Len(envs) < MaxEnvs
    /\ envs' = Append(envs, Environment_new(p))
    /\ pre' = envs
    /\ last' = Op("new", Len(envs) + 1, "", NoObj, Ok(NoObj), None)
    /\ steps' = steps + 1
    /\ UNCHANGED << aborted, call, ret >>

\* env.borrow_mut().set(name, obj)
SetVar(e, name, obj) ==
    /\ Running
    /\ envs' = Environment_set(envs, e, name, obj)
    /\ pre' = envs
    /\ last' = Op("set", e, name, obj, Ok(NoObj), None)
    /\ steps' = steps + 1
    /\ UNCHANGED << aborted, call, ret >>

\* env.borrow().get(name)
GetVar(e, name) ==
    /\ Running
    /\ pre' = envs
    /\ last' = Op("get", e, name, NoObj, Ok(NoObj), Environment_get(envs, e, name))
    /\ steps' = steps + 1
    /\ UNCHANGED << envs, aborted, call, ret >>

\* eval(object, &env)
Eval(e, obj) ==
    /\ Running
    /\ LET out == eval(obj, e, envs)
       IN  /\ envs' = out.store
           /\ last' = Op("eval", e, "", obj, out.res, None)
           /\ aborted' = (out.res.kind = "Panic")
    /\ pre' = envs
    /\ steps' = steps + 1
    /\ UNCHANGED << call, ret >>

Next ==
    \/ \E p \in 0..Len(envs) : NewEnv(p)
    \/ \E e \in 1..Len(envs), n \in Names, o \in SetInputs : SetVar(e, n, o)
    \/ \E e \in 1..Len(envs), n \in Names \cup {"nope"} : GetVar(e, n)
    \/ \E e \in 1..Len(envs), o \in EvalInputs : Eval(e, o)

Spec == Init /\ [][Next]_vars

\* ------------------------------------------------- is_builtin on its own
MaxRol == 2
MaxCol == 2

FileNames == {"__builtin__", "prog", ""}

\* the locations an object can carry
Locations ==
    {NoLoc} \cup {Location_new(f, r, c) : f \in FileNames, r \in 0..MaxRol, c \in 0..MaxCol}

\* function objects made from a user lambda, at any location
UserClosures ==
    {Lambda(fd, loc) : fd \in {UserLambda.fdef, LambdaX.fdef}, loc \in Locations}

\* the evaluator state of a host that has built its root environment and
\* run nothing yet
EvaluatorIdle ==
    /\ envs = << Environment_new(0) >>
    /\ pre = envs
    /\ last = Op("init", 0, "", NoObj, Ok(NoObj), None)
    /\ steps = 0
    /\ aborted = FALSE

\* the object under test is the one a fresh root environment binds to an
\* operator name (origin = that name), or a user closure (origin = "user")
InitBuiltin ==
    /\ EvaluatorIdle
    /\ \/ \E n \in BuiltinNames :
            call = [fn |-> "is_builtin", origin |-> n, arg |-> envs[1].vars[n]]
       \/ \E o \in UserClosures :
            call = [fn |-> "is_builtin", origin |-> "user", arg |-> o]
    /\ ret = NoRet

\* Environment::is_builtin(&object)
IsBuiltin ==
    /\ call.fn = "is_builtin" /\ ret = NoRet
    /\ ret' = [kind |-> "Bool", bval |-> is_builtin(call.arg)]
    /\ UNCHANGED << envs, pre, last, steps, aborted, call >>

NextBuiltin == IsBuiltin

SpecBuiltin == InitBuiltin /\ [][NextBuiltin]_vars

\* ------------------------------------------------------ parse on its own
MaxTokens == 4

\* TokenKind, with one representative payload for the kinds that have one
LeftParenthesis == [k |-> "LeftParenthesis"]
RightParenthesis == [k |-> "RightParenthesis"]
TkInteger(n) == [k |-> "Integer", ival |-> n]
TkFloat(x) == [k |-> "Float", fval |-> x]
TkStr(t) == [k |-> "Str", sval |-> t]
TkSymbol(t) == [k |-> "Symbol", name |-> t]
TkComment(t) == [k |-> "Comment", text |-> t]
IGNORE == [k |-> "IGNORE"]
UNKNOWN == [k |-> "UNKNOWN"]

Token(kind, loc) == [kind |-> kind, loc |-> loc]

Float(x, loc) == [kind |-> "Float", fval |-> x, loc |-> loc]

Str(t, loc) == [kind |-> "Str", sval |-> t, loc |-> loc]

TokenKinds ==
    {LeftParenthesis, RightParenthesis, TkInteger(1), TkSymbol("x"),
     TkComment("c"), IGNORE, UNKNOWN}

\* the token queue for a one-line source whose i-th token has kind ks[i]
Tokens(ks) == [i \in 1..Len(ks) |-> Token(ks[i], Location_new("prog", 1, i))]

KindSeqs == UNION {[1..n -> TokenKinds] : n \in 0..MaxTokens}

\* a parse result together with the tokens left in the queue
POut(r, rest) == [res |-> r, rest |-> rest]

\* the while loop of parse_list: objects collected so far and last_token
RECURSIVE parse_list_loop(_, _, _)
parse_list_loop(tokens, objects, last_token) ==
    IF tokens = << >>
    THEN IF last_token.some
         THEN POut(Err("Unclosed List found"), tokens)
         ELSE POut(Panic("called Option::unwrap() on a None value"), tokens)
    ELSE LET token == Head(tokens)
             rest == Tail(tokens)
             k == token.kind.k
             loc == token.loc
         IN  CASE k \in {"Comment", "IGNORE"} ->
                    parse_list_loop(rest, objects, last_token)
               [] k = "UNKNOWN" -> POut(Err("Unknown symbols found"), rest)
               [] k = "Float" ->
                    parse_list_loop(rest, Append(objects, Float(token.kind.fval, loc)),
                                    Some(token))
               [] k = "Integer" ->
                    parse_list_loop(rest, Append(objects, Integer(token.kind.ival, loc)),
                                    Some(token))
               [] k = "Str" ->
                    parse_list_loop(rest, Append(objects, Str(token.kind.sval, loc)),
                                    Some(token))
               [] k = "Symbol" ->
                    parse_list_loop(rest, Append(objects, Symbol(token.kind.name, loc)),
                                    Some(token))
               [] k = "LeftParenthesis" ->
                    LET r == parse_list_loop(rest, << >>, None)
                    IN  IF r.res.kind # "Ok" THEN r
                        ELSE parse_list_loop(r.rest,
                                             Append(objects, List(r.res.val, NoLoc)),
                                             Some(token))
               [] k = "RightParenthesis" -> POut(Ok(objects), rest)

parse_list(tokens) == parse_list_loop(tokens, << >>, None)

\* the while loop of parse
RECURSIVE parse_loop(_, _)
parse_loop(tokens, objects) ==
    IF tokens = << >>
    THEN POut(Ok(List(objects, Location_new("", 1, 1))), tokens)
    ELSE LET token == Head(tokens)
             rest == Tail(tokens)
             k == token.kind.k
             loc == token.loc
         IN  CASE k \in {"Comment", "IGNORE"} -> parse_loop(rest, objects)
               [] k = "UNKNOWN" -> POut(Err("Unknown symbols found"), rest)
               [] k = "Float" ->
                    parse_loop(rest, Append(objects, Float(token.kind.fval, loc)))
               [] k = "Integer" ->
                    parse_loop(rest, Append(objects, Integer(token.kind.ival, loc)))
               [] k = "Str" ->
                    parse_loop(rest, Append(objects, Str(token.kind.sval, loc)))
               [] k = "Symbol" ->
                    parse_loop(rest, Append(objects, Symbol(token.kind.name, loc)))
               [] k = "LeftParenthesis" ->
                    LET r == parse_list(rest)
                    IN  IF r.res.kind # "Ok" THEN r
                        ELSE parse_loop(r.rest, Append(objects, List(r.res.val, NoLoc)))
               [] k = "RightParenthesis" ->
                    POut(Err("Unexpected Right parenthesis"), rest)

parse(tokens) == parse_loop(tokens, << >>)

InitParse ==
    /\ EvaluatorIdle
    /\ \E ks \in KindSeqs : call = [fn |-> "parse", arg |-> Tokens(ks)]
    /\ ret = NoRet

\* parse(&mut tokens)
Parse ==
    /\ call.fn = "parse" /\ ret = NoRet
    /\ ret' = parse(call.arg).res
    /\ UNCHANGED << envs, pre, last, steps, aborted, call >>

NextParse == Parse

SpecParse == InitParse /\ [][NextParse]_vars

\* ================================================================ claims
IsEval == last.op = "eval"

\* (define <symbol> <expr> ...)
IsDefineForm(o) ==
    /\ o.kind = "List" /\ ~o.loc.some
    /\ Len(o.items) >= 3
    /\ o.items[1].kind = "Symbol" /\ o.items[1].name = "define"
    /\ o.items[2].kind = "Symbol"

\* (if <condition> ...)
IsIfForm(o) ==
    /\ o.kind = "List" /\ ~o.loc.some
    /\ Len(o.items) >= 2
    /\ o.items[1].kind = "Symbol" /\ o.items[1].name = "if"

\* the environments from e outward to its root
RECURSIVE Chain(_, _)
Chain(st, e) ==
    IF st[e].parent = 0 THEN << e >> ELSE << e >> \o Chain(st, st[e].parent)

ProperAncestors(st, e) == {Chain(st, e)[k] : k \in 2..Len(Chain(st, e))}

\* the binding of n in the nearest environment of the chain that has one
NearestBinding(st, e, n) ==
    LET ch == Chain(st, e)
        bs == {k \in 1..Len(ch) : n \in DOMAIN st[ch[k]].vars}
    IN  IF bs = {} THEN None
        ELSE LET k == CHOOSE i \in bs : \A j \in bs : i <= j
             IN  Some(st[ch[k]].vars[n])

ProbeNames == Names \cup {"nope", "-"}

\* C1: when e evaluates successfully to v in env, eval of (define x e) in
\* env returns Void and a following eval of Symbol(x) in env returns v, also
\* when x was already bound in env (the later define replaces the value).
C1_DefineThenLookup ==
    (IsEval /\ IsDefineForm(last.obj)) =>
        LET x == last.obj.items[2].name
            v == eval_obj(last.obj.items[3], last.env, pre)
        IN  v.res.kind = "Ok" =>
                /\ last.res = Ok(Void(NoLoc))
                /\ eval(Sym(x), last.env, envs).res = Ok(v.res.val)

\* a define of x replaced a different value that env itself bound to x
C1_Witness ==
    /\ IsEval /\ IsDefineForm(last.obj)
    /\ last.res = Ok(Void(NoLoc))
    /\ LET x == last.obj.items[2].name
       IN  /\ x \in DOMAIN pre[last.env].vars
           /\ envs[last.env].vars[x] = I2
           /\ pre[last.env].vars[x] = I1

\* C2: a define or a set executed in environment E leaves the local
\* bindings of every ancestor of E unchanged, so a lookup made directly in
\* an ancestor still returns the ancestor's own value.
C2_AncestorsUnchanged ==
    (last.op \in {"eval", "set"}) =>
        \A a \in ProperAncestors(pre, last.env) :
            /\ envs[a] = pre[a]
            /\ \A n \in ProbeNames :
                 Environment_get(envs, a, n) = Environment_get(pre, a, n)

\* a child redefined a name its parent binds: the child sees the new value,
\* the parent still its own
C2_Witness ==
    /\ IsEval /\ IsDefineForm(last.obj) /\ last.res.kind = "Ok"
    /\ envs[last.env].parent # 0
    /\ LET x == last.obj.items[2].name
           p == envs[last.env].parent
       IN  /\ x \in DOMAIN envs[p].vars
           /\ envs[p].vars[x] = I1
           /\ Environment_get(envs, p, x) = Some(I1)
           /\ Environment_get(envs, last.env, x) = Some(I2)

\* C3: get(n) returns the value most recently set for n in the nearest
\* environment of the chain that binds n and reports absence only when no
\* environment of the chain binds n; eval of Symbol(n) fails with the
\* symbol-not-found error exactly in that case.
C3_GetNearest ==
    /\ \A e \in 1..Len(envs), n \in ProbeNames :
          Environment_get(envs, e, n) = NearestBinding(envs, e, n)
    /\ (last.op = "set" =>
          Environment_get(envs, last.env, last.name) = Some(last.obj))
    /\ (last.op = "get" => last.got = NearestBinding(pre, last.env, last.name))
    /\ ((IsEval /\ last.obj.kind = "Symbol") =>
          LET b == NearestBinding(pre, last.env, last.obj.name)
          IN  IF b.some THEN last.res = Ok(b.val)
              ELSE last.res = Err("Symbol not found"))

\* a symbol the child does not bind was resolved through its parent
C3_Witness ==
    /\ IsEval /\ last.obj.kind = "Symbol"
    /\ envs[last.env].parent # 0
    /\ last.obj.name \notin DOMAIN envs[last.env].vars
    /\ last.obj.name \in DOMAIN envs[envs[last.env].parent].vars
    /\ last.res.kind = "Ok"

\* C4: Environment::new(parent) builds an environment with empty local
\* bindings unless it is the root, so an operator name looked up from a
\* child is resolved through the parent chain.
C4_ChildStartsEmpty ==
    (last.op = "new" /\ envs[last.env].parent # 0) =>
        /\ DOMAIN envs[last.env].vars = {}
        /\ \A n \in BuiltinNames :
             Environment_get(envs, last.env, n)
                = Environment_get(envs, envs[last.env].parent, n)

\* C5: the condition of an if form is evaluated in the current environment
\* whatever its shape; the evaluation never aborts, and a condition whose
\* value is not a Bool yields an error result.
C5_ConditionEvaluated ==
    (IsEval /\ IsIfForm(last.obj)) =>
        LET c == eval_obj(last.obj.items[2], last.env, pre)
        IN  c.res.kind = "Ok" =>
                /\ last.res.kind # "Panic"
                /\ (c.res.val.kind # "Bool" => last.res.kind = "Err")

\* C6: with a condition that evaluates to a Bool, true gives the value of
\* the then-operand alone, false with an else-operand gives the value of
\* the else-operand alone, false without an else-operand gives Void.
C6_BranchSelection ==
    (IsEval /\ IsIfForm(last.obj)) =>
        LET items == last.obj.items
            c == eval_obj(items[2], last.env, pre)
        IN  (c.res.kind = "Ok" /\ c.res.val.kind = "Bool") =>
                IF c.res.val.bval
                THEN Len(items) >= 3 =>
                        Out(last.res, envs) = eval_obj(items[3], last.env, c.store)
                ELSE IF Len(items) >= 4
                THEN Out(last.res, envs) = eval_obj(items[4], last.env, c.store)
                ELSE last.res.kind = "Ok" /\ last.res.val.kind = "Void"

\* (lambda <params> <body> ...)
IsLambdaForm(o) ==
    /\ o.kind = "List" /\ ~o.loc.some
    /\ Len(o.items) >= 3
    /\ o.items[1].kind = "Symbol" /\ o.items[1].name = "lambda"

\* (<symbol> <arg>...) whose head is bound, in st from e, to a function
\* object that is not one of the operator objects
IsUserCall(o, e, st) ==
    /\ o.kind = "List" /\ ~o.loc.some
    /\ Len(o.items) >= 1
    /\ o.items[1].kind = "Symbol"
    /\ o.items[1].name \notin {"define", "if", "lambda"}
    /\ LET f == Environment_get(st, e, o.items[1].name)
       IN  f.some /\ f.val.kind = "Lambda" /\ f.val # create_builtin_funcdef

\* C7: a lambda form yields a closure that shares the environment it was
\* built in, so a call of the closure bound to f, whose body is y, returns
\* the value y has in that environment at the time of the call (6 after
\* (define y 5) (define f (lambda () y)) (define y 6)).
C7_ClosureSeesLaterDefine ==
    /\ (IsEval /\ IsLambdaForm(last.obj)) =>
          (last.res.kind = "Ok" /\ last.res.val.kind = "Lambda")
    /\ (/\ IsEval /\ IsUserCall(last.obj, last.env, pre)
        /\ Len(last.obj.items) = 1
        /\ Environment_get(pre, last.env, last.obj.items[1].name) = Some(UserLambda)
        /\ Environment_get(pre, last.env, "y").some)
          => last.res = Ok(Environment_get(pre, last.env, "y").val)

\* C8: a call of a user closure returns a result, having bound the
\* parameters in a fresh child environment of the defining environment,
\* and leaves the bindings of every environment that existed before the
\* call as they were.
C8_CallFrameIsolated ==
    (IsEval /\ IsUserCall(last.obj, last.env, pre)) =>
        /\ last.res.kind # "Panic"
        /\ Len(envs) = Len(pre) + 1
        /\ envs[Len(envs)].parent = last.env
        /\ \A e \in 1..Len(pre) : envs[e] = pre[e]

\* the node parse returns for a program with at least one form
IsProgram(o) == o.kind = "List" /\ o.loc.some /\ Len(o.items) >= 1

\* the forms evaluated in order, stopping at the first that fails
RECURSIVE RunForms(_, _, _)
RunForms(forms, e, st) ==
    LET r == eval_obj(Head(forms), e, st)
    IN  IF r.res.kind # "Ok" \/ Len(forms) = 1 THEN r
        ELSE RunForms(Tail(forms), e, r.store)

\* C9: evaluating the top-level node evaluates its forms in order and
\* stops at the first form that fails: the result is that form's error and
\* the bindings of the earlier defines are still in the environment.
C9_TopLevelFailFast ==
    (IsEval /\ IsProgram(last.obj)) =>
        LET want == RunForms(last.obj.items, last.env, pre)
        IN  want.res.kind = "Err" =>
                (last.res = want.res /\ envs = want.store)

\* C10: a non-empty list whose first element is not the symbol define, if
\* or lambda is a function application whatever the kind of that element:
\* evaluation never aborts, and a first element whose value is not a
\* closure yields an error result.
C10_ApplicationNeverAborts ==
    (/\ IsEval /\ last.obj.kind = "List" /\ ~last.obj.loc.some
     /\ Len(last.obj.items) >= 1
     /\ ~(last.obj.items[1].kind = "Symbol"
          /\ last.obj.items[1].name \in {"define", "if", "lambda"})) =>
        LET h == eval_obj(last.obj.items[1], last.env, pre)
        IN  (h.res.kind = "Ok" /\ h.res.val.kind # "Lambda") =>
                last.res.kind = "Err"

\* C11: is_builtin is true of every object Environment::new binds to one of
\* the 11 operator names and false of every closure made from a user
\* lambda, whatever location the user closure carries.
C11_BuiltinTag ==
    (call.fn = "is_builtin" /\ ret # NoRet) =>
        IF call.origin \in BuiltinNames THEN ret.bval ELSE ~ret.bval

\* every ')' closes an open list and no list is open at the end
RECURSIVE Balanced(_, _)
Balanced(tokens, depth) ==
    IF tokens = << >> THEN depth = 0
    ELSE IF Head(tokens).kind.k = "LeftParenthesis"
    THEN Balanced(Tail(tokens), depth + 1)
    ELSE IF Head(tokens).kind.k = "RightParenthesis"
    THEN depth > 0 /\ Balanced(Tail(tokens), depth - 1)
    ELSE Balanced(Tail(tokens), depth)

\* the atoms of a tree, left to right
RECURSIVE Leaves(_)
Leaves(o) ==
    IF o.kind # "List" THEN << o >>
    ELSE IF o.items = << >> THEN << >>
    ELSE Leaves(Head(o.items)) \o Leaves([o EXCEPT !.items = Tail(o.items)])

\* the locations of the atom tokens, in source order
RECURSIVE AtomLocs(_)
AtomLocs(tokens) ==
    IF tokens = << >> THEN << >>
    ELSE IF Head(tokens).kind.k \in {"Integer", "Float", "Str", "Symbol"}
    THEN << Head(tokens).loc >> \o AtomLocs(Tail(tokens))
    ELSE AtomLocs(Tail(tokens))

\* C12: on a token sequence without UNKNOWN tokens parse never aborts; it
\* returns an error when a list is still open at the end of input or a ')'
\* has no open list, and Ok with the forms in source order exactly when the
\* parentheses are balanced.
C12_ParseTotal ==
    (/\ call.fn = "parse" /\ ret # NoRet
     /\ \A i \in 1..Len(call.arg) : call.arg[i].kind.k # "UNKNOWN") =>
        /\ ret.kind # "Panic"
        /\ ret.kind = "Ok" <=> Balanced(call.arg, 0)
        /\ ret.kind = "Ok" =>
             LET lv == Leaves(ret.val)
             IN  [i \in 1..Len(lv) |-> lv[i].loc] = AtomLocs(call.arg)

\* what C12 says apart from never aborting: the outcome is Ok with the
\* forms in source order exactly when the parentheses are balanced
C12_OkIffBalanced ==
    (/\ call.fn = "parse" /\ ret # NoRet /\ ret.kind # "Panic"
     /\ \A i \in 1..Len(call.arg) : call.arg[i].kind.k # "UNKNOWN") =>
        /\ ret.kind = "Ok" <=> Balanced(call.arg, 0)
        /\ ret.kind = "Ok" =>
             LET lv == Leaves(ret.val)
             IN  [i \in 1..Len(lv) |-> lv[i].loc] = AtomLocs(call.arg)

====
